---- MODULE Spec2Model ----
(***************************************************************************)
(* Gourmet Express backend: the repository operations of crud/crud.py and  *)
(* the HTTP handlers of api/payments.py and api/deliveries.py, over the    *)
(* tables of models/models.py.                                             *)
(*                                                                         *)
(* Money is an integer number of cents (Numeric(10, 2) columns, Decimal    *)
(* arithmetic: exact).  A table is a function from primary key to row.     *)
(* A request runs in its own session (db/session.py get_db); every         *)
(* db.commit() of the code is the end of one step of the request, so the   *)
(* committed states between two commits of one handler are states of the   *)
(* model.                                                                  *)
(***************************************************************************)
EXTENDS Integers, Sequences, FiniteSets, TLC

VARIABLES
    users,        \* users table:        id -> [role]
    menu,         \* menu_items table:   id -> [price]
    orders,       \* orders table:       id -> [user_id, status, total_amount]
    order_items,  \* order_items table:  id -> [order_id, menu_item_id, quantity, unit_price, line_total]
    payments,     \* payments table:     id -> [order_id, provider, amount, status, provider_payment_id, raw_payload]
    deliveries,   \* deliveries table:   id -> [order_id, delivery_person_id, status, eta_minutes]
    history,      \* delivery_status_history table: id -> [delivery_id, status, note]
    order_seq,    \* last value drawn from the orders id sequence (a rollback does not return it)
    uuid_seq,     \* number of uuid4() values drawn so far
    req           \* the requests in flight or just answered: slot -> request

vars == <<users, menu, orders, order_items, payments, deliveries, history,
          order_seq, uuid_seq, req>>

tables == <<users, menu, orders, order_items, payments, deliveries, history>>

-----------------------------------------------------------------------------
(* Bounds of the model. *)

MaxItems == 2        \* longest item list of a create_order call
MaxQty == 2          \* largest quantity of a requested item
MaxOrderSeq == 2     \* order ids drawn at most
MaxUuid == 2         \* payment intents answered at most
MaxHistory == 3      \* history rows written at most

-----------------------------------------------------------------------------
(* Values. *)

\* Python's None where the column or argument is a string.
None == "None"

\* Python's None where the column or argument is an integer (ids, minutes and
\* amounts of the model are never negative).
NoInt == 0 - 1

\* The empty table.
EmptyTable == << >>

\* session.add(row) followed by a successful flush: the table with the row.
Insert(table, id, row) ==
    [i \in DOMAIN table \cup {id} |-> IF i = id THEN row ELSE table[i]]

\* The primary key the table's id sequence gives to the next row.
NextId(table) == Cardinality(DOMAIN table) + 1

\* Session.get(Model, id): the row, when there is one.
Has(table, id) == id \in DOMAIN table

-----------------------------------------------------------------------------
(* Requests. *)

Idle == [pc |-> "idle", op |-> "none", code |-> "none"]

\* A slot takes a new request once its last one is over.
Free(s) == req[s].pc = "idle"

\* The answered request: what was called, with what, and the outcome.
Done(op, arg, code, out) ==
    [pc |-> "done", op |-> op, arg |-> arg, code |-> code, out |-> out]

\* The answer has been sent: the request is over.
Release(s) ==
    /\ req[s].pc = "done"
    /\ req' = [req EXCEPT ![s] = Idle]
    /\ UNCHANGED <<users, menu, orders, order_items, payments, deliveries,
                   history, order_seq, uuid_seq>>

\* A close that commits what the session holds.
SessionCloseCommits(committed, pending) ==
    [i \in DOMAIN committed \cup DOMAIN pending |->
        IF i \in DOMAIN pending THEN pending[i] ELSE committed[i]]

\* get_db: the session is closed when the request ends.  What was flushed but
\* not committed is rolled back with it: the committed table stays as it is.
SessionClose(committed, pending) == committed

\* Session.commit(): what the session added becomes part of the table.
Commit(committed, pending) ==
    [i \in DOMAIN committed \cup DOMAIN pending |->
        IF i \in DOMAIN pending THEN pending[i] ELSE committed[i]]

-----------------------------------------------------------------------------
(* crud.create_order *)

\* A sum that starts from the second value.
RECURSIVE _money_sum_skips_first(_)
_money_sum_skips_first(values) ==
    IF values = << >> THEN 0
    ELSE IF Len(values) = 1 THEN 0
    ELSE Head(Tail(values)) + _money_sum_skips_first(Tail(values))

RECURSIVE _money_sum(_)
_money_sum(values) ==
    IF values = << >> THEN 0
    ELSE Head(values) + _money_sum(Tail(values))

\* item.get("quantity", 1): an item dict without a quantity counts once.
Quantity(item) == IF item.quantity = NoInt THEN 1 ELSE item.quantity

\* The first item the loop of create_order raises on (0: none).
RECURSIVE FirstBad(_, _, _)
FirstBad(items, i, m) ==
    IF i > Len(items) THEN 0
    ELSE IF ~Has(m, items[i].menu_item_id) \/ Quantity(items[i]) < 1 THEN i
    ELSE FirstBad(items, i + 1, m)

\* unit_price = Decimal(menu_item.price)
UnitPrice(item, m) == m[item.menu_item_id].price

\* line_total = unit_price * qty
LineTotal(item, m) == UnitPrice(item, m) * Quantity(item)

\* The OrderItem the loop builds for one requested item.
OrderItemRow(oid, item, m) ==
    [order_id |-> oid, menu_item_id |-> item.menu_item_id,
     quantity |-> Quantity(item), unit_price |-> UnitPrice(item, m),
     line_total |-> LineTotal(item, m)]

\* line_totals, in the order of the request.
LineTotals(items, m) == [i \in 1..Len(items) |-> LineTotal(items[i], m)]

\* db.add_all(order_items): the rows get the next ids, in the order of the request.
AddAll(table, oid, items, m) ==
    LET base == Cardinality(DOMAIN table) IN
    [i \in DOMAIN table \cup {base + k : k \in 1..Len(items)} |->
        IF i \in DOMAIN table THEN table[i]
        ELSE OrderItemRow(oid, items[i - base], m)]

\* Lines 85-87: the Order is added with total 0.00 and flushed, which draws
\* its id; it is not committed.
CreateOrderFlush(s, user_id, items) ==
    /\ Free(s)
    /\ order_seq < MaxOrderSeq
    /\ order_seq' = order_seq + 1
    /\ req' = [req EXCEPT ![s] =
                [pc |-> "co_items", op |-> "create_order", code |-> "none",
                 arg |-> [user_id |-> user_id, items |-> items],
                 oid |-> order_seq + 1,
                 pending |-> Insert(EmptyTable, order_seq + 1,
                                    [user_id |-> user_id, status |-> "created",
                                     total_amount |-> 0])]]
    /\ UNCHANGED <<tables, uuid_seq>>

\* Lines 92-119: the loop over the items, then the commit; or the ValueError
\* of the first bad item, which ends the request without a commit.
CreateOrderItems(s) ==
    /\ req[s].pc = "co_items"
    /\ LET items == req[s].arg.items
           oid == req[s].oid
           bad == FirstBad(items, 1, menu)
           pending == [req[s].pending EXCEPT
                        ![oid].total_amount = _money_sum(LineTotals(items, menu))]
       IN IF bad # 0
          THEN /\ orders' = SessionClose(orders, req[s].pending)
               /\ order_items' = order_items
               /\ req' = [req EXCEPT ![s] =
                            Done("create_order", req[s].arg, "ValueError",
                                 [oid |-> oid, bad |-> bad])]
          ELSE /\ orders' = Commit(orders, pending)
               /\ order_items' = AddAll(order_items, oid, items, menu)
               /\ req' = [req EXCEPT ![s] =
                            Done("create_order", req[s].arg, "ok",
                                 [oid |-> oid, bad |-> 0])]
    /\ UNCHANGED <<users, menu, payments, deliveries, history, order_seq, uuid_seq>>

\* A status update that writes the row anew, with the default total.
SetOrderStatusRowAnew(table, order_id, status) ==
    [table EXCEPT ![order_id] =
        [user_id |-> @.user_id, status |-> status, total_amount |-> 0]]

\* crud.set_order_status, lines 129-137.
SetOrderStatusRow(table, order_id, status) ==
    [table EXCEPT ![order_id].status = status]

\* A direct call of crud.set_order_status.
SetOrderStatus(s, order_id, status) ==
    /\ Free(s)
    /\ LET arg == [order_id |-> order_id, status |-> status] IN
       IF ~Has(orders, order_id)
       THEN /\ orders' = orders
            /\ req' = [req EXCEPT ![s] = Done("set_order_status", arg, "ValueError", 0)]
       ELSE /\ orders' = SetOrderStatusRow(orders, order_id, status)
            /\ req' = [req EXCEPT ![s] = Done("set_order_status", arg, "ok", order_id)]
    /\ UNCHANGED <<users, menu, order_items, payments, deliveries, history,
                   order_seq, uuid_seq>>

-----------------------------------------------------------------------------
(* crud.upsert_payment_for_order *)

\* Line 152: db.scalar(select(Payment).where(Payment.order_id == order_id)),
\* as the id of the row found (0: None).
SelectPayment(table, order_id) ==
    LET found == {p \in DOMAIN table : table[p].order_id = order_id} IN
    IF found = {} THEN 0 ELSE CHOOSE p \in found : \A q \in found : p <= q

\* The values of one call: the arguments, with the defaults of the signature
\* (lines 147-149) for those left out.
PaymentValues(order_id, provider, amount, status, provider_payment_id, raw_payload) ==
    [order_id |-> order_id, provider |-> provider, amount |-> amount,
     status |-> status, provider_payment_id |-> provider_payment_id,
     raw_payload |-> raw_payload]

\* An upsert whose update leaves the provider payment id of the row.
UpsertRowKeepsId(table, found, v) ==
    IF found = 0
    THEN Insert(table, NextId(table), v)
    ELSE [table EXCEPT ![found] =
            [@ EXCEPT !.provider = v.provider, !.amount = v.amount,
                      !.status = v.status,
                      !.raw_payload = v.raw_payload]]

\* An upsert that merges: a None in the call keeps what the row holds.
UpsertRowMerges(table, found, v) ==
    IF found = 0
    THEN Insert(table, NextId(table), v)
    ELSE [table EXCEPT ![found] =
            [@ EXCEPT !.provider = v.provider, !.amount = v.amount,
                      !.status = v.status,
                      !.provider_payment_id =
                            IF v.provider_payment_id = None THEN @
                            ELSE v.provider_payment_id,
                      !.raw_payload =
                            IF v.raw_payload = None THEN @ ELSE v.raw_payload]]

\* Lines 153-161: a new row when none was found, else the five assignments.
UpsertRow(table, found, v) ==
    IF found = 0
    THEN Insert(table, NextId(table), v)
    ELSE [table EXCEPT ![found] =
            [@ EXCEPT !.provider = v.provider, !.amount = v.amount,
                      !.status = v.status,
                      !.provider_payment_id = v.provider_payment_id,
                      !.raw_payload = v.raw_payload]]

\* A payments table without the unique constraint on order_id.
PaymentInsertRefusedByForeignKey(table, found, v) ==
    /\ found = 0
    /\ ~Has(orders, v.order_id)

\* Line 163, db.commit(): the store refuses an INSERT that breaks the unique
\* constraint on payments.order_id or its foreign key to orders.
PaymentInsertRefused(table, found, v) ==
    /\ found = 0
    /\ \/ SelectPayment(table, v.order_id) # 0
       \/ ~Has(orders, v.order_id)

\* A direct call of crud.upsert_payment_for_order; an argument left out is
\* given as the default of the signature.
UpsertPayment(s, v) ==
    /\ Free(s)
    /\ LET found == SelectPayment(payments, v.order_id) IN
       IF PaymentInsertRefused(payments, found, v)
       THEN /\ payments' = SessionClose(payments, EmptyTable)
            /\ req' = [req EXCEPT ![s] = Done("upsert", v, "IntegrityError", 0)]
       ELSE /\ payments' = UpsertRow(payments, found, v)
            /\ req' = [req EXCEPT ![s] = Done("upsert", v, "ok", v.order_id)]
    /\ UNCHANGED <<users, menu, orders, order_items, deliveries, history,
                   order_seq, uuid_seq>>

-----------------------------------------------------------------------------
(* api/payments.py *)

\* get_payment_webhook_secret(): PAYMENT_WEBHOOK_SECRET, or the development default.
Secret == "dev_webhook_secret"

\* f"mock_{uuid4().hex}", for the k-th uuid drawn.
MockPaymentId(k) == "mock_" \o ToString(k)

\* _ensure_decimal(v, fallback)
_ensure_decimal(v, fallback) == IF v # NoInt THEN v ELSE fallback

\* json.dumps({"currency": ..., "succeed": ..., "generated_by": "mock_intent"})
IntentPayload(payload) ==
    "{currency: " \o payload.currency \o ", succeed: " \o ToString(payload.succeed)
        \o ", generated_by: mock_intent}"

\* The body of a webhook request, as sent: the event as JSON text.
EventBody(event) ==
    "{provider_payment_id: " \o event.provider_payment_id
        \o ", order_id: " \o ToString(event.order_id)
        \o ", provider: " \o event.provider
        \o ", status: " \o event.status \o "}"

\* Lines 101-106 and 116: the decoded body, or the dumped event when it is empty.
WebhookPayload(body, event) ==
    IF body # "" THEN body ELSE "{event: " \o EventBody(event) \o "}"

\* create_mock_payment_intent, lines 37-46 and the select of the upsert
\* (crud line 152): the order is looked up, the amount resolved and checked,
\* the provider payment id drawn.
IntentBegin(s, payload) ==
    /\ Free(s)
    /\ IF ~Has(orders, payload.order_id)
       THEN /\ req' = [req EXCEPT ![s] = Done("intent", payload, "404", 0)]
            /\ uuid_seq' = uuid_seq
       ELSE LET amount == _ensure_decimal(payload.amount,
                                          orders[payload.order_id].total_amount)
            IN IF amount <= 0
               THEN /\ req' = [req EXCEPT ![s] = Done("intent", payload, "400", 0)]
                    /\ uuid_seq' = uuid_seq
               ELSE /\ uuid_seq < MaxUuid
                    /\ uuid_seq' = uuid_seq + 1
                    /\ req' = [req EXCEPT ![s] =
                         [pc |-> "pi_upsert", op |-> "intent", code |-> "none",
                          arg |-> payload,
                          found |-> SelectPayment(payments, payload.order_id),
                          v |-> PaymentValues(
                                  payload.order_id, payload.provider, amount,
                                  IF payload.succeed THEN "authorized" ELSE "failed",
                                  MockPaymentId(uuid_seq + 1),
                                  IntentPayload(payload))]]
    /\ UNCHANGED tables
    /\ UNCHANGED order_seq

\* Lines 48-62: the write and the commit of the upsert (crud lines 153-165).
IntentUpsert(s) ==
    /\ req[s].pc = "pi_upsert"
    /\ IF PaymentInsertRefused(payments, req[s].found, req[s].v)
       THEN /\ payments' = SessionClose(payments, EmptyTable)
            /\ req' = [req EXCEPT ![s] = Done("intent", req[s].arg, "500", 0)]
       ELSE /\ payments' = UpsertRow(payments, req[s].found, req[s].v)
            /\ req' = [req EXCEPT ![s].pc = "pi_nudge"]
    /\ UNCHANGED <<users, menu, orders, order_items, deliveries, history,
                   order_seq, uuid_seq>>

\* A nudge that does not look at the order status.
NudgesWhateverTheOrder(status, order_status) == status = "authorized"

\* A nudge that does not look at the payment status.
NudgesWhateverThePayment(status, order_status) == order_status = "created"

\* Line 65: status == "authorized" and order.status == "created"
Nudges(status, order_status) == status = "authorized" /\ order_status = "created"

\* Lines 64-74: order.status, expired by the commit, is read again; an
\* authorized payment moves a created order to confirmed.
IntentNudge(s) ==
    /\ req[s].pc = "pi_nudge"
    /\ LET order_id == req[s].arg.order_id IN
       orders' = IF Nudges(req[s].v.status, orders[order_id].status)
                 THEN SetOrderStatusRow(orders, order_id, "confirmed")
                 ELSE orders
    /\ req' = [req EXCEPT ![s] = Done("intent", req[s].arg, "200", req[s].v)]
    /\ UNCHANGED <<users, menu, order_items, payments, deliveries, history,
                   order_seq, uuid_seq>>

\* crud.get_payment_by_provider_payment_id, as the id of the row (0: None).
get_payment_by_provider_payment_id(table, provider_payment_id) ==
    LET found == {p \in DOMAIN table :
                    table[p].provider_payment_id = provider_payment_id} IN
    IF found = {} THEN 0 ELSE CHOOSE p \in found : \A q \in found : p <= q

\* A check that lets a request without the header through.
SecretRefusedWhenGiven(x_webhook_secret) ==
    x_webhook_secret # None /\ x_webhook_secret # Secret

\* Line 91: not x_webhook_secret or x_webhook_secret != expected
SecretRefused(x_webhook_secret) ==
    \/ x_webhook_secret = None
    \/ x_webhook_secret = ""
    \/ x_webhook_secret # Secret

\* A body that is no PaymentWebhookEvent: the framework answers 422 before
\* mock_payment_webhook is called (the event is a parameter of the handler).
WebhookUnprocessable(s, x_webhook_secret) ==
    /\ Free(s)
    /\ req' = [req EXCEPT ![s] =
                Done("webhook_body", [secret |-> x_webhook_secret], "422", 0)]
    /\ UNCHANGED <<tables, order_seq, uuid_seq>>

\* A webhook that does not compare the payment's order with the event's.
WebhookBeginAnyOrder(s, x_webhook_secret, event) ==
    /\ Free(s)
    /\ LET arg == [secret |-> x_webhook_secret, event |-> event]
           p == get_payment_by_provider_payment_id(payments, event.provider_payment_id)
       IN req' = [req EXCEPT ![s] =
            IF SecretRefused(x_webhook_secret) THEN Done("webhook", arg, "401", 0)
            ELSE IF p = 0 THEN Done("webhook", arg, "404", 0)
            ELSE [pc |-> "wh_upsert", op |-> "webhook", code |-> "none",
                  arg |-> arg,
                  found |-> SelectPayment(payments, event.order_id),
                  v |-> PaymentValues(event.order_id, event.provider,
                                      payments[p].amount, event.status,
                                      event.provider_payment_id,
                                      WebhookPayload(EventBody(event), event))]]
    /\ UNCHANGED <<tables, order_seq, uuid_seq>>

\* mock_payment_webhook, lines 90-99 and the select of the upsert.
WebhookBegin(s, x_webhook_secret, event) ==
    /\ Free(s)
    /\ LET arg == [secret |-> x_webhook_secret, event |-> event]
           p == get_payment_by_provider_payment_id(payments, event.provider_payment_id)
       IN req' = [req EXCEPT ![s] =
            IF SecretRefused(x_webhook_secret) THEN Done("webhook", arg, "401", 0)
            ELSE IF p = 0 THEN Done("webhook", arg, "404", 0)
            ELSE IF payments[p].order_id # event.order_id THEN Done("webhook", arg, "400", 0)
            ELSE [pc |-> "wh_upsert", op |-> "webhook", code |-> "none",
                  arg |-> arg,
                  found |-> SelectPayment(payments, event.order_id),
                  v |-> PaymentValues(event.order_id, event.provider,
                                      payments[p].amount, event.status,
                                      event.provider_payment_id,
                                      WebhookPayload(EventBody(event), event))]]
    /\ UNCHANGED <<tables, order_seq, uuid_seq>>

\* Lines 108-117: the write and the commit of the upsert.
WebhookUpsert(s) ==
    /\ req[s].pc = "wh_upsert"
    /\ IF PaymentInsertRefused(payments, req[s].found, req[s].v)
       THEN /\ payments' = SessionClose(payments, EmptyTable)
            /\ req' = [req EXCEPT ![s] = Done("webhook", req[s].arg, "500", 0)]
       ELSE /\ payments' = UpsertRow(payments, req[s].found, req[s].v)
            /\ req' = [req EXCEPT ![s].pc = "wh_order"]
    /\ UNCHANGED <<users, menu, orders, order_items, deliveries, history,
                   order_seq, uuid_seq>>

\* A mapping that confirms only orders that are still in their initial state.
OrderStatusForCreatedOnly(status, current) ==
    IF status \in {"authorized", "captured"}
    THEN (IF current = "created" THEN "confirmed" ELSE current)
    ELSE IF status \in {"failed"} THEN "cancelled"
    ELSE current

\* Lines 119-128: the order status that follows from the payment status.
OrderStatusFor(status, current) ==
    IF status \in {"authorized", "captured"} THEN "confirmed"
    ELSE IF status \in {"failed"} THEN "cancelled"
    ELSE current

WebhookOrder(s) ==
    /\ req[s].pc = "wh_order"
    /\ LET order_id == req[s].arg.event.order_id IN
       orders' = SetOrderStatusRow(orders, order_id,
                    OrderStatusFor(req[s].arg.event.status, orders[order_id].status))
    /\ req' = [req EXCEPT ![s] = Done("webhook", req[s].arg, "200", req[s].v)]
    /\ UNCHANGED <<users, menu, order_items, payments, deliveries, history,
                   order_seq, uuid_seq>>

-----------------------------------------------------------------------------
(* crud.create_delivery, crud.set_delivery_status, api/deliveries.py *)

\* crud.get_delivery_by_order_id, as the id of the row (0: None).
get_delivery_by_order_id(table, order_id) ==
    LET found == {d \in DOMAIN table : table[d].order_id = order_id} IN
    IF found = {} THEN 0 ELSE CHOOSE d \in found : \A e \in found : d <= e

\* Python's truth value of an Optional[int]: None and 0 are false.
Truthy(n) == n # NoInt /\ n # 0

\* Line 171: the Delivery that create_delivery builds.
DeliveryRow(order_id, delivery_person_id, eta_minutes) ==
    [order_id |-> order_id, delivery_person_id |-> delivery_person_id,
     eta_minutes |-> eta_minutes,
     status |-> IF Truthy(delivery_person_id) THEN "assigned" ELSE "unassigned"]

\* Line 173, db.commit(): the store refuses an INSERT that breaks the unique
\* constraint on deliveries.order_id or a foreign key (orders, users).
DeliveryInsertRefused(table, row) ==
    \/ get_delivery_by_order_id(table, row.order_id) # 0
    \/ ~Has(orders, row.order_id)
    \/ row.delivery_person_id # NoInt /\ ~Has(users, row.delivery_person_id)

\* A handler that does not look for an existing Delivery.
DeliveryCreateBeginUnchecked(s, payload) ==
    /\ Free(s)
    /\ req' = [req EXCEPT ![s] =
         IF ~Has(orders, payload.order_id)
         THEN Done("create_delivery", payload, "404", 0)
         ELSE [pc |-> "cd_insert", op |-> "create_delivery", code |-> "none",
               arg |-> payload]]
    /\ UNCHANGED <<tables, order_seq, uuid_seq>>

\* create_delivery_endpoint, lines 29-35: the two lookups.
DeliveryCreateBegin(s, payload) ==
    /\ Free(s)
    /\ req' = [req EXCEPT ![s] =
         IF ~Has(orders, payload.order_id)
         THEN Done("create_delivery", payload, "404", 0)
         ELSE IF get_delivery_by_order_id(deliveries, payload.order_id) # 0
         THEN Done("create_delivery", payload, "409", 0)
         ELSE [pc |-> "cd_insert", op |-> "create_delivery", code |-> "none",
               arg |-> payload]]
    /\ UNCHANGED <<tables, order_seq, uuid_seq>>

\* crud.create_delivery, lines 171-174: the Delivery is added and committed.
DeliveryInsert(s) ==
    /\ req[s].pc = "cd_insert"
    /\ LET row == DeliveryRow(req[s].arg.order_id, req[s].arg.delivery_person_id,
                              req[s].arg.eta_minutes)
           id == NextId(deliveries)
       IN IF DeliveryInsertRefused(deliveries, row)
          THEN /\ deliveries' = SessionClose(deliveries, Insert(EmptyTable, id, row))
               /\ req' = [req EXCEPT ![s] = Done("create_delivery", req[s].arg, "500", 0)]
          ELSE /\ deliveries' = Commit(deliveries, Insert(EmptyTable, id, row))
               /\ req' = [req EXCEPT ![s] =
                            [pc |-> "cd_history", op |-> "create_delivery",
                             code |-> "none", arg |-> req[s].arg, id |-> id]]
    /\ UNCHANGED <<users, menu, orders, order_items, payments, history,
                   order_seq, uuid_seq>>

\* A history row that loses its note.
HistoryRowWithoutNote(delivery_id, status, note) ==
    [delivery_id |-> delivery_id, status |-> status, note |-> None]

\* A DeliveryStatusHistory row.
HistoryRow(delivery_id, status, note) ==
    [delivery_id |-> delivery_id, status |-> status, note |-> note]

\* crud.create_delivery, lines 176-180: the initial history row, added and
\* committed after the Delivery.
DeliveryInitialHistory(s) ==
    /\ req[s].pc = "cd_history"
    /\ history' = Insert(history, NextId(history),
                         HistoryRow(req[s].id, deliveries[req[s].id].status,
                                    "Initial status"))
    /\ req' = [req EXCEPT ![s] = Done("create_delivery", req[s].arg, "200", req[s].id)]
    /\ UNCHANGED <<users, menu, orders, order_items, payments, deliveries,
                   order_seq, uuid_seq>>

\* crud.set_delivery_status, lines 190-191.
SetDeliveryStatusRow(table, delivery_id, status) ==
    [table EXCEPT ![delivery_id].status = status]

\* set_delivery_status_endpoint, with crud.set_delivery_status.
DeliverySetStatus(s, delivery_id, payload) ==
    /\ Free(s)
    /\ LET arg == [delivery_id |-> delivery_id, payload |-> payload] IN
       IF payload.delivery_id # delivery_id
       THEN /\ req' = [req EXCEPT ![s] = Done("set_status", arg, "400", 0)]
            /\ UNCHANGED <<deliveries, history>>
       ELSE IF ~Has(deliveries, delivery_id)
       THEN /\ req' = [req EXCEPT ![s] = Done("set_status", arg, "404", 0)]
            /\ UNCHANGED <<deliveries, history>>
       ELSE /\ Cardinality(DOMAIN history) < MaxHistory
            /\ deliveries' = SetDeliveryStatusRow(deliveries, delivery_id, payload.status)
            /\ history' = Insert(history, NextId(history),
                                 HistoryRow(delivery_id, payload.status, payload.note))
            /\ req' = [req EXCEPT ![s] = Done("set_status", arg, "200", delivery_id)]
    /\ UNCHANGED <<users, menu, orders, order_items, payments, order_seq, uuid_seq>>

\* A role check that lets every role through.
AnyRole == {"delivery", "admin", "customer"}

\* Line 99: the roles that may be given a delivery.
AssigneeRoles == {"delivery", "admin"}

\* crud.assign_delivery: assignee and status "assigned"; the ETA when one is given.
AssignRow(table, delivery_id, delivery_person_id, eta_minutes) ==
    [table EXCEPT ![delivery_id] =
        [@ EXCEPT !.delivery_person_id = delivery_person_id,
                  !.status = "assigned",
                  !.eta_minutes = IF eta_minutes # NoInt THEN eta_minutes ELSE @]]

\* assign_delivery_endpoint, lines 89-112.
DeliveryAssign(s, delivery_id, payload) ==
    /\ Free(s)
    /\ LET arg == [delivery_id |-> delivery_id, payload |-> payload] IN
       IF ~Has(users, payload.delivery_person_id)
       THEN /\ req' = [req EXCEPT ![s] = Done("assign", arg, "404", 0)]
            /\ deliveries' = deliveries
       ELSE IF users[payload.delivery_person_id].role \notin AssigneeRoles
       THEN /\ req' = [req EXCEPT ![s] = Done("assign", arg, "400", 0)]
            /\ deliveries' = deliveries
       ELSE IF ~Has(deliveries, delivery_id)
       THEN /\ req' = [req EXCEPT ![s] = Done("assign", arg, "404", 0)]
            /\ deliveries' = deliveries
       ELSE /\ deliveries' = AssignRow(deliveries, delivery_id,
                                       payload.delivery_person_id, payload.eta_minutes)
            /\ req' = [req EXCEPT ![s] = Done("assign", arg, "200", delivery_id)]
    /\ UNCHANGED <<users, menu, orders, order_items, payments, history,
                   order_seq, uuid_seq>>

-----------------------------------------------------------------------------
(* The store outside the requests. *)

\* menu_items.price is rewritten (by the menu administration, which is not
\* part of this backend's handlers).
SetMenuPrice(m, price) ==
    /\ Has(menu, m)
    /\ menu[m].price # price
    /\ menu' = [menu EXCEPT ![m].price = price]
    /\ UNCHANGED <<users, orders, order_items, payments, deliveries, history,
                   order_seq, uuid_seq, req>>

-----------------------------------------------------------------------------
(* Inputs. *)

Prices == {450, 999}

\* Users 1 (customer), 2 (delivery), 3 (admin); no user 0 or 4.
UserIds == 0..4

\* Menu items 1 and 2; no menu item 3.
MenuItemIds == 1..3

Items == [menu_item_id : MenuItemIds, quantity : {NoInt} \cup 0..MaxQty]

ItemLists == UNION {[1..n -> Items] : n \in 0..MaxItems}

\* The order of the specification's example: 2 x 9.99 + 1 x 4.50 = 24.48.
ExampleItems ==
    <<[menu_item_id |-> 1, quantity |-> 2], [menu_item_id |-> 2, quantity |-> 1]>>

\* The ids of the orders that can exist (none exists at first).
OrderIds == 1..MaxOrderSeq

Providers == {"mock", "stripe"}

IntentPayloads ==
    [order_id : OrderIds, provider : Providers, amount : {NoInt, 0},
     currency : {"usd"}, succeed : BOOLEAN]

Secrets == {None, "", "wrong_secret", Secret}

PaymentStatuses == {"authorized", "captured", "failed", "refunded"}

\* The provider payment ids that can be issued (none is at first).
ProviderPaymentIds == {MockPaymentId(k) : k \in 1..MaxUuid}

Events ==
    [provider_payment_id : ProviderPaymentIds, order_id : OrderIds,
     provider : Providers, status : PaymentStatuses]

\* Direct calls of the upsert that leave out status, provider_payment_id and
\* raw_payload: their defaults (crud lines 147-149) are what is stored.
UpsertCalls ==
    {PaymentValues(o, p, 500, "pending", None, None) :
        o \in OrderIds, p \in Providers}

DeliveryIds == 1..MaxOrderSeq

EtaMinutes == {NoInt, 30}

DeliveryCreates ==
    [order_id : OrderIds, delivery_person_id : {NoInt} \cup UserIds,
     eta_minutes : EtaMinutes]

DeliveryStatuses == {"picked_up", "delivered"}

Notes == {None, "left at the door"}

DeliveryStatusHistoryCreates ==
    [delivery_id : DeliveryIds, status : DeliveryStatuses, note : Notes]

DeliveryAssignRequests == [delivery_person_id : UserIds, eta_minutes : EtaMinutes]

-----------------------------------------------------------------------------
(* Specifications. *)

Init ==
    /\ users = <<[role |-> "customer"], [role |-> "delivery"], [role |-> "admin"]>>
    /\ menu = <<[price |-> 999], [price |-> 450]>>
    /\ orders = EmptyTable
    /\ order_items = EmptyTable
    /\ payments = EmptyTable
    /\ deliveries = EmptyTable
    /\ history = EmptyTable
    /\ order_seq = 0
    /\ uuid_seq = 0
    /\ req = [s \in {1} |-> Idle]

\* Order creation, over every item list, while menu prices change.
NextOrders ==
    \/ \E s \in DOMAIN req, items \in ItemLists : CreateOrderFlush(s, 1, items)
    \/ \E s \in DOMAIN req : CreateOrderItems(s)
    \/ \E m \in MenuItemIds, price \in Prices : SetMenuPrice(m, price)
    \/ \E s \in DOMAIN req : Release(s)

SpecOrders == Init /\ [][NextOrders]_vars

\* Payments: intents, webhooks and direct upserts for orders of the example.
NextPayments ==
    \/ \E s \in DOMAIN req : CreateOrderFlush(s, 1, ExampleItems)
    \/ \E s \in DOMAIN req : CreateOrderItems(s)
    \/ \E s \in DOMAIN req, o \in OrderIds : SetOrderStatus(s, o, "preparing")
    \/ \E s \in DOMAIN req, v \in UpsertCalls : UpsertPayment(s, v)
    \/ \E s \in DOMAIN req, payload \in IntentPayloads : IntentBegin(s, payload)
    \/ \E s \in DOMAIN req : IntentUpsert(s)
    \/ \E s \in DOMAIN req : IntentNudge(s)
    \/ \E s \in DOMAIN req, x \in Secrets : WebhookUnprocessable(s, x)
    \/ \E s \in DOMAIN req, x \in Secrets, event \in Events : WebhookBegin(s, x, event)
    \/ \E s \in DOMAIN req : WebhookUpsert(s)
    \/ \E s \in DOMAIN req : WebhookOrder(s)
    \/ \E s \in DOMAIN req : Release(s)

SpecPayments == Init /\ [][NextPayments]_vars

\* Deliveries: creation, assignment and status changes for orders of the example.
NextDeliveries ==
    \/ \E s \in DOMAIN req : CreateOrderFlush(s, 1, ExampleItems)
    \/ \E s \in DOMAIN req : CreateOrderItems(s)
    \/ \E s \in DOMAIN req, payload \in DeliveryCreates : DeliveryCreateBegin(s, payload)
    \/ \E s \in DOMAIN req : DeliveryInsert(s)
    \/ \E s \in DOMAIN req : DeliveryInitialHistory(s)
    \/ \E s \in DOMAIN req, d \in DeliveryIds, payload \in DeliveryStatusHistoryCreates :
            DeliverySetStatus(s, d, payload)
    \/ \E s \in DOMAIN req, d \in DeliveryIds, payload \in DeliveryAssignRequests :
            DeliveryAssign(s, d, payload)
    \/ \E s \in DOMAIN req : Release(s)

SpecDeliveries == Init /\ [][NextDeliveries]_vars

\* The users table is filled outside these handlers (no endpoint creates a
\* User): users.id is a plain Integer primary key, and a row inserted with an
\* explicit id may have id 0.
UsersTables ==
    {<<[role |-> "customer"], [role |-> "delivery"], [role |-> "admin"]>>,
     [i \in 0..2 |-> IF i = 1 THEN [role |-> "customer"] ELSE [role |-> "delivery"]]}

InitAnyUsers ==
    /\ users \in UsersTables
    /\ menu = <<[price |-> 999], [price |-> 450]>>
    /\ orders = EmptyTable
    /\ order_items = EmptyTable
    /\ payments = EmptyTable
    /\ deliveries = EmptyTable
    /\ history = EmptyTable
    /\ order_seq = 0
    /\ uuid_seq = 0
    /\ req = [s \in {1} |-> Idle]

\* Delivery creation alone, over either users table.
NextDeliveryCreation ==
    \/ \E s \in DOMAIN req : CreateOrderFlush(s, 1, ExampleItems)
    \/ \E s \in DOMAIN req : CreateOrderItems(s)
    \/ \E s \in DOMAIN req, payload \in DeliveryCreates : DeliveryCreateBegin(s, payload)
    \/ \E s \in DOMAIN req : DeliveryInsert(s)
    \/ \E s \in DOMAIN req : DeliveryInitialHistory(s)
    \/ \E s \in DOMAIN req : Release(s)

SpecDeliveryCreation == InitAnyUsers /\ [][NextDeliveryCreation]_vars


\* Every operation together, for orders of the example, each operation with
\* one shape of call (mock provider, amount left out, no ETA, no note).
\* Payments are made for both orders; the delivery is that of the first.
NextAll ==
    \/ \E s \in DOMAIN req : CreateOrderFlush(s, 1, ExampleItems)
    \/ \E s \in DOMAIN req : CreateOrderItems(s)
    \/ \E m \in MenuItemIds, price \in Prices : SetMenuPrice(m, price)
    \/ \E s \in DOMAIN req : SetOrderStatus(s, 1, "preparing")
    \/ \E s \in DOMAIN req, succeed \in BOOLEAN, o \in OrderIds :
            IntentBegin(s, [order_id |-> o, provider |-> "mock", amount |-> NoInt,
                            currency |-> "usd", succeed |-> succeed])
    \/ \E s \in DOMAIN req : IntentUpsert(s)
    \/ \E s \in DOMAIN req : IntentNudge(s)
    \/ \E s \in DOMAIN req, id \in ProviderPaymentIds, status \in {"captured", "failed"}, o \in OrderIds :
            WebhookBegin(s, Secret, [provider_payment_id |-> id, order_id |-> o,
                                     provider |-> "mock", status |-> status])
    \/ \E s \in DOMAIN req : WebhookUpsert(s)
    \/ \E s \in DOMAIN req : WebhookOrder(s)
    \/ \E s \in DOMAIN req, person \in {NoInt, 2} :
            DeliveryCreateBegin(s, [order_id |-> 1, delivery_person_id |-> person,
                                    eta_minutes |-> NoInt])
    \/ \E s \in DOMAIN req : DeliveryInsert(s)
    \/ \E s \in DOMAIN req : DeliveryInitialHistory(s)
    \/ \E s \in DOMAIN req :
            DeliverySetStatus(s, 1, [delivery_id |-> 1, status |-> "delivered", note |-> None])
    \/ \E s \in DOMAIN req :
            DeliveryAssign(s, 1, [delivery_person_id |-> 3, eta_minutes |-> NoInt])
    \/ \E s \in DOMAIN req : Release(s)

SpecAll == Init /\ [][NextAll]_vars


\* Two requests at a time, each in its own session: their steps interleave.
InitConcurrent ==
    /\ users = <<[role |-> "customer"], [role |-> "delivery"], [role |-> "admin"]>>
    /\ menu = <<[price |-> 999], [price |-> 450]>>
    /\ orders = EmptyTable
    /\ order_items = EmptyTable
    /\ payments = EmptyTable
    /\ deliveries = EmptyTable
    /\ history = EmptyTable
    /\ order_seq = 0
    /\ uuid_seq = 0
    /\ req = [s \in {1, 2} |-> Idle]

\* Concurrent payment intents and concurrent POST /deliveries, for orders of
\* the example.
NextConcurrent ==
    \/ \E s \in DOMAIN req : CreateOrderFlush(s, 1, ExampleItems)
    \/ \E s \in DOMAIN req : CreateOrderItems(s)
    \/ \E s \in DOMAIN req, o \in OrderIds, succeed \in BOOLEAN :
            IntentBegin(s, [order_id |-> o, provider |-> "mock", amount |-> NoInt,
                            currency |-> "usd", succeed |-> succeed])
    \/ \E s \in DOMAIN req : IntentUpsert(s)
    \/ \E s \in DOMAIN req : IntentNudge(s)
    \/ \E s \in DOMAIN req, o \in OrderIds, person \in {NoInt, 2} :
            DeliveryCreateBegin(s, [order_id |-> o, delivery_person_id |-> person,
                                    eta_minutes |-> NoInt])
    \/ \E s \in DOMAIN req : DeliveryInsert(s)
    \/ \E s \in DOMAIN req : DeliveryInitialHistory(s)
    \/ \E s \in DOMAIN req : Release(s)

SpecConcurrent == InitConcurrent /\ [][NextConcurrent]_vars


\* The whole backend; the three specifications above are its parts.
Next == NextOrders \/ NextPayments \/ NextDeliveries

Spec == Init /\ [][Next]_vars

-----------------------------------------------------------------------------
(* Properties of order creation (SpecOrders). *)

\* The step of slot s that ends its create_order call.
CreateOrderEnds(s) == req[s].pc = "co_items" /\ req'[s].pc = "done"

\* The quantity asked for: the one given, or 1 when the item gives none.
RequestedQuantity(item) == IF item.quantity = NoInt THEN 1 ELSE item.quantity

\* Sum over the first n requested items of quantity x price, at prices m.
RECURSIVE RequestedTotal(_, _, _)
RequestedTotal(items, n, m) ==
    IF n = 0 THEN 0
    ELSE RequestedTotal(items, n - 1, m)
            + RequestedQuantity(items[n]) * m[items[n].menu_item_id].price

\* The ids of the OrderItem rows of an order.
ItemRowsOf(table, oid) == {i \in DOMAIN table : table[i].order_id = oid}

\* C1: every successful create_order call with a non-empty item list persists
\* an Order whose total_amount is the exact sum, over the requested items, of
\* quantity x the menu item's price when the order was created; it persists
\* one OrderItem per requested item, in the order of the request, with that
\* price as unit_price and unit_price x quantity as line_total.
C1_TotalIsExactSum ==
    [][\A s \in DOMAIN req :
        (CreateOrderEnds(s) /\ req'[s].code = "ok" /\ req'[s].arg.items # << >>) =>
            LET items == req'[s].arg.items
                oid == req'[s].out.oid
                base == Cardinality(DOMAIN order_items)
            IN /\ oid \in DOMAIN orders'
               /\ orders'[oid].total_amount = RequestedTotal(items, Len(items), menu)
               /\ ItemRowsOf(order_items', oid) = {base + k : k \in 1..Len(items)}
               /\ \A k \in 1..Len(items) :
                    LET row == order_items'[base + k]
                        price == menu[items[k].menu_item_id].price
                    IN /\ row.menu_item_id = items[k].menu_item_id
                       /\ row.quantity = RequestedQuantity(items[k])
                       /\ row.unit_price = price
                       /\ row.line_total = price * RequestedQuantity(items[k])
    ]_vars

\* The example of the specification has been ordered at the initial prices:
\* 2 x 9.99 + 1 x 4.50 = 24.48.
C1_Witness ==
    \E s \in DOMAIN req :
        /\ req[s].pc = "done" /\ req[s].op = "create_order" /\ req[s].code = "ok"
        /\ req[s].arg.items = ExampleItems
        /\ orders[req[s].out.oid].total_amount = 2448
        /\ Cardinality(ItemRowsOf(order_items, req[s].out.oid)) = 2

\* A requested item create_order raises on: no such menu item, or quantity < 1.
BadItem(item, m) == item.menu_item_id \notin DOMAIN m \/ RequestedQuantity(item) < 1

\* C2: order creation is all-or-nothing. A create_order call with a bad item
\* anywhere in its list fails, and the step that ends it leaves the orders and
\* order_items tables as they were: the Order that was flushed before the
\* items were checked is not persisted, nor is any OrderItem.
C2_AllOrNothing ==
    [][\A s \in DOMAIN req :
        (CreateOrderEnds(s)
            /\ \E k \in 1..Len(req[s].arg.items) : BadItem(req[s].arg.items[k], menu)) =>
                /\ req'[s].code = "ValueError"
                /\ req[s].oid \in DOMAIN req[s].pending
                /\ req[s].oid \notin DOMAIN orders'
                /\ ItemRowsOf(order_items', req[s].oid) = {}
                /\ orders' = orders
                /\ order_items' = order_items
    ]_vars

\* A call has failed on its second item, after a good first one, and the
\* order id it had drawn names no order.
C2_Witness ==
    \E s \in DOMAIN req :
        /\ req[s].pc = "done" /\ req[s].op = "create_order"
        /\ req[s].code = "ValueError"
        /\ req[s].out.bad = 2
        /\ req[s].out.oid = order_seq
        /\ req[s].out.oid \notin DOMAIN orders

-----------------------------------------------------------------------------
(* Properties of payments (SpecPayments). *)

\* The ids of the Payment rows of an order.
PaymentRowsOf(table, order_id) == {p \in DOMAIN table : table[p].order_id = order_id}

\* The step of slot s that commits an upsert_payment_for_order call: from an
\* intent, from a webhook, or called directly.
UpsertCommits(s) ==
    \/ req[s].pc = "pi_upsert" /\ req'[s].pc = "pi_nudge"
    \/ req[s].pc = "wh_upsert" /\ req'[s].pc = "wh_order"
    \/ req[s].pc = "idle" /\ req'[s].pc = "done"
            /\ req'[s].op = "upsert" /\ req'[s].code = "ok"

\* The values of the call that step commits.
UpsertValues(s) == IF req[s].pc = "idle" THEN req'[s].arg ELSE req[s].v

\* C3: when an upsert_payment_for_order call commits, exactly one Payment row
\* exists for its order, and the row's provider, amount, status,
\* provider_payment_id and raw_payload are the values of that call, a None of
\* the call included; the rows of other orders are as they were. Nothing but
\* such a call changes the payments table, so after any sequence of calls the
\* row of an order holds the values of the latest one.
C3_UpsertKeepsLatest ==
    [][/\ \A s \in DOMAIN req : UpsertCommits(s) =>
            LET v == UpsertValues(s) IN
            /\ Cardinality(PaymentRowsOf(payments', v.order_id)) = 1
            /\ \A p \in PaymentRowsOf(payments', v.order_id) :
                    /\ payments'[p].provider = v.provider
                    /\ payments'[p].amount = v.amount
                    /\ payments'[p].status = v.status
                    /\ payments'[p].provider_payment_id = v.provider_payment_id
                    /\ payments'[p].raw_payload = v.raw_payload
            /\ \A p \in DOMAIN payments :
                    payments[p].order_id # v.order_id =>
                        p \in DOMAIN payments' /\ payments'[p] = payments[p]
       /\ payments' # payments => \E s \in DOMAIN req : UpsertCommits(s)
    ]_vars

\* A direct call that left out provider_payment_id and raw_payload has
\* replaced the row that an intent and an accepted webhook had written for
\* the order (the order is cancelled): the row holds None for both.
C3_Witness ==
    \E s \in DOMAIN req :
        /\ req[s].pc = "done" /\ req[s].op = "upsert" /\ req[s].code = "ok"
        /\ orders[req[s].arg.order_id].status = "cancelled"
        /\ Cardinality(PaymentRowsOf(payments, req[s].arg.order_id)) = 1
        /\ \A p \in PaymentRowsOf(payments, req[s].arg.order_id) :
                /\ payments[p].provider_payment_id = None
                /\ payments[p].raw_payload = None
                /\ payments[p].status = "pending"
                /\ payments[p].provider = "stripe"

\* The header that the webhook must refuse: missing, empty, or not the secret.
BadSecret(x) == x = None \/ x = "" \/ x # "dev_webhook_secret"

\* C7: a webhook call (with a well-formed event) whose X-Webhook-Secret is
\* missing, empty or different from the configured secret is answered 401 at
\* once, and the step leaves every Payment row and every Order row unchanged,
\* whatever the event names; no webhook with such a header is ever processed
\* further.
C7_BadSecretUnauthorized ==
    [][/\ \A s \in DOMAIN req :
            (req[s].pc = "idle" /\ req'[s].op = "webhook"
                /\ BadSecret(req'[s].arg.secret)) =>
                    /\ req'[s].pc = "done"
                    /\ req'[s].code = "401"
                    /\ payments' = payments
                    /\ orders' = orders
       /\ \A s \in DOMAIN req :
            req[s].pc \in {"wh_upsert", "wh_order"} => ~BadSecret(req[s].arg.secret)
    ]_vars

\* A webhook with an empty secret has been answered 401 although its event
\* names an existing payment and that payment's order.
C7_Witness ==
    \E s \in DOMAIN req :
        /\ req[s].pc = "done" /\ req[s].op = "webhook" /\ req[s].code = "401"
        /\ req[s].arg.secret = ""
        /\ \E p \in DOMAIN payments :
                /\ payments[p].provider_payment_id = req[s].arg.event.provider_payment_id
                /\ payments[p].order_id = req[s].arg.event.order_id
                /\ payments[p].status # req[s].arg.event.status

\* The order status an accepted event asks for.
MappedOrderStatus(event_status, before) ==
    CASE event_status \in {"authorized", "captured"} -> "confirmed"
      [] event_status = "failed" -> "cancelled"
      [] OTHER -> before

\* C8: a webhook call with the valid secret, a known provider payment id and
\* the order id of that payment is accepted; its upsert sets the Payment's
\* status to the event status; and its last step sets the Order status to
\* confirmed for authorized or captured, to cancelled for failed, and leaves
\* it as it was for any other event status, whatever the status was before.
C8_WebhookMapsOrderStatus ==
    [][\A s \in DOMAIN req :
        /\ (req[s].pc = "idle" /\ req'[s].op = "webhook"
                /\ ~BadSecret(req'[s].arg.secret)
                /\ \E p \in DOMAIN payments :
                        /\ payments[p].provider_payment_id
                                = req'[s].arg.event.provider_payment_id
                        /\ payments[p].order_id = req'[s].arg.event.order_id)
            => req'[s].pc = "wh_upsert"
        /\ (req[s].pc = "wh_upsert" /\ req'[s].pc # "wh_upsert") =>
                /\ req'[s].pc = "wh_order"
                /\ \A p \in PaymentRowsOf(payments', req[s].arg.event.order_id) :
                        payments'[p].status = req[s].arg.event.status
        /\ (req[s].pc = "wh_order" /\ req'[s].pc # "wh_order") =>
                LET o == req[s].arg.event.order_id IN
                /\ req'[s].pc = "done" /\ req'[s].code = "200"
                /\ orders'[o].status =
                        MappedOrderStatus(req[s].arg.event.status, orders[o].status)
                /\ \A other \in DOMAIN orders : other # o => orders'[other] = orders[other]
    ]_vars

\* An accepted captured event has been answered 200: the Payment of its order
\* is captured and the Order is confirmed.
C8_Witness ==
    \E s \in DOMAIN req :
        /\ req[s].pc = "done" /\ req[s].op = "webhook" /\ req[s].code = "200"
        /\ req[s].arg.event.status = "captured"
        /\ orders[req[s].arg.event.order_id].status = "confirmed"
        /\ \A p \in PaymentRowsOf(payments, req[s].arg.event.order_id) :
                payments[p].status = "captured"

\* C9: a payment-intent call with succeed = false changes no Order in any of
\* its steps (an Order in created stays created), and its upsert stores the
\* Payment of the order with status failed.
C9_FailedIntentKeepsOrder ==
    [][\A s \in DOMAIN req :
        (req'[s] # req[s] /\ req'[s].op = "intent" /\ ~req'[s].arg.succeed) =>
            /\ orders' = orders
            /\ req'[s].pc = "pi_nudge" =>
                    /\ PaymentRowsOf(payments', req'[s].arg.order_id) # {}
                    /\ \A p \in PaymentRowsOf(payments', req'[s].arg.order_id) :
                            payments'[p].status = "failed"
            /\ (req'[s].pc = "done" /\ req'[s].code = "200") =>
                    \A p \in PaymentRowsOf(payments', req'[s].arg.order_id) :
                            payments'[p].status = "failed"
    ]_vars

\* An intent with succeed = false has been answered 200 for an order that is
\* still created, and the order's Payment is failed.
C9_Witness ==
    \E s \in DOMAIN req :
        /\ req[s].pc = "done" /\ req[s].op = "intent" /\ req[s].code = "200"
        /\ ~req[s].arg.succeed
        /\ orders[req[s].arg.order_id].status = "created"
        /\ \E p \in PaymentRowsOf(payments, req[s].arg.order_id) :
                payments[p].status = "failed"

-----------------------------------------------------------------------------
(* Properties of deliveries (SpecDeliveries). *)

\* The ids of the history rows of a Delivery.
HistoryOf(table, delivery_id) == {h \in DOMAIN table : table[h].delivery_id = delivery_id}

\* The newest history row of a Delivery (rows are numbered as they are written).
Newest(table, delivery_id) ==
    CHOOSE h \in HistoryOf(table, delivery_id) :
        \A g \in HistoryOf(table, delivery_id) : g <= h

\* C4: a set-status call on an existing Delivery, with the same delivery id
\* in path and body, succeeds; it adds exactly one history row to that
\* Delivery, the newest row carries the requested status and note, the
\* Delivery's status becomes the requested status, and the history rows that
\* existed, those of every other Delivery included, are unchanged.
C4_SetStatusAppendsOne ==
    [][\A s \in DOMAIN req :
        (req[s].pc = "idle" /\ req'[s].op = "set_status"
            /\ req'[s].arg.payload.delivery_id = req'[s].arg.delivery_id
            /\ req'[s].arg.delivery_id \in DOMAIN deliveries) =>
                LET d == req'[s].arg.delivery_id
                    payload == req'[s].arg.payload
                IN /\ req'[s].pc = "done" /\ req'[s].code = "200"
                   /\ Cardinality(HistoryOf(history', d))
                        = Cardinality(HistoryOf(history, d)) + 1
                   /\ Cardinality(DOMAIN history') = Cardinality(DOMAIN history) + 1
                   /\ Newest(history', d) \notin DOMAIN history
                   /\ history'[Newest(history', d)].status = payload.status
                   /\ history'[Newest(history', d)].note = payload.note
                   /\ deliveries'[d].status = payload.status
                   /\ \A h \in DOMAIN history :
                        h \in DOMAIN history' /\ history'[h] = history[h]
                   /\ \A e \in DOMAIN deliveries :
                        e # d => /\ deliveries'[e] = deliveries[e]
                                 /\ HistoryOf(history', e) = HistoryOf(history, e)
    ]_vars

\* A set-status call with a note has been answered 200 for a Delivery that
\* now has two history rows, while another Delivery has its single one.
C4_Witness ==
    \E s \in DOMAIN req :
        /\ req[s].pc = "done" /\ req[s].op = "set_status" /\ req[s].code = "200"
        /\ req[s].arg.payload.note # None
        /\ Cardinality(HistoryOf(history, req[s].out)) = 2
        /\ history[Newest(history, req[s].out)].note = req[s].arg.payload.note
        /\ \E e \in DOMAIN deliveries :
                e # req[s].out /\ Cardinality(HistoryOf(history, e)) = 1

\* C5: in every committed state every existing Delivery has a history row,
\* the state between the two commits of create_delivery included.
C5_EveryDeliveryHasHistory ==
    \A d \in DOMAIN deliveries : HistoryOf(history, d) # {}

\* C6: a POST /deliveries request for an Order that already has a Delivery is
\* answered 409 at once; the step creates no Delivery row and no history row
\* and leaves the existing Delivery as it is.
C6_SecondDeliveryConflicts ==
    [][\A s \in DOMAIN req :
        (req[s].pc = "idle" /\ req'[s].op = "create_delivery"
            /\ \E d \in DOMAIN deliveries :
                    deliveries[d].order_id = req'[s].arg.order_id) =>
                /\ req'[s].pc = "done"
                /\ req'[s].code = "409"
                /\ deliveries' = deliveries
                /\ history' = history
    ]_vars

\* A POST /deliveries naming another delivery person has been answered 409:
\* the order still has its one Delivery, with the assignee it had.
C6_Witness ==
    \E s \in DOMAIN req :
        /\ req[s].pc = "done" /\ req[s].op = "create_delivery" /\ req[s].code = "409"
        /\ req[s].arg.delivery_person_id = 2
        /\ Cardinality({d \in DOMAIN deliveries :
                            deliveries[d].order_id = req[s].arg.order_id}) = 1
        /\ \A d \in DOMAIN deliveries :
                deliveries[d].order_id = req[s].arg.order_id =>
                    deliveries[d].delivery_person_id = 3

\* C10: an assign request naming an existing User whose role is neither
\* delivery nor admin is answered 400 at once, whether the Delivery exists or
\* not, and the step leaves every Delivery (assignee, status, ETA) and the
\* status history unchanged.
C10_CustomerAssignRejected ==
    [][\A s \in DOMAIN req :
        (req[s].pc = "idle" /\ req'[s].op = "assign"
            /\ req'[s].arg.payload.delivery_person_id \in DOMAIN users
            /\ users[req'[s].arg.payload.delivery_person_id].role
                    \notin {"delivery", "admin"}) =>
                /\ req'[s].pc = "done"
                /\ req'[s].code = "400"
                /\ deliveries' = deliveries
                /\ history' = history
    ]_vars

\* An assign request naming the customer has been answered 400 for an
\* existing, picked-up Delivery, which keeps its assignee and its status.
C10_Witness ==
    \E s \in DOMAIN req :
        /\ req[s].pc = "done" /\ req[s].op = "assign" /\ req[s].code = "400"
        /\ users[req[s].arg.payload.delivery_person_id].role = "customer"
        /\ req[s].arg.delivery_id \in DOMAIN deliveries
        /\ deliveries[req[s].arg.delivery_id].delivery_person_id = 2
        /\ deliveries[req[s].arg.delivery_id].status = "picked_up"

\* An assign request naming the customer has been answered 400 although no
\* Delivery has the id it names.
C10_WitnessNoDelivery ==
    \E s \in DOMAIN req :
        /\ req[s].pc = "done" /\ req[s].op = "assign" /\ req[s].code = "400"
        /\ users[req[s].arg.payload.delivery_person_id].role = "customer"
        /\ req[s].arg.delivery_id \notin DOMAIN deliveries

\* C11: history is append-only (no step changes or removes a history row),
\* and every operation that sets a Delivery's status adds exactly one history
\* row to it: a creation has written the Delivery's single row when it is
\* answered, and a successful set-status or assign call leaves the Delivery
\* with one row more than it had.
C11_EveryStatusChangeIsLogged ==
    [][/\ \A h \in DOMAIN history :
            h \in DOMAIN history' /\ history'[h] = history[h]
       /\ \A s \in DOMAIN req :
            (req[s].pc # "done" /\ req'[s].pc = "done" /\ req'[s].code = "200") =>
                /\ req'[s].op = "create_delivery" =>
                        Cardinality(HistoryOf(history', req'[s].out)) = 1
                /\ req'[s].op \in {"set_status", "assign"} =>
                        Cardinality(HistoryOf(history', req'[s].out))
                            = Cardinality(HistoryOf(history, req'[s].out)) + 1
    ]_vars

-----------------------------------------------------------------------------
(* Further properties of payments (SpecPayments). *)

\* C12: a webhook request whose X-Webhook-Secret is missing, empty or wrong
\* is answered 401 whatever its body is, a body that is no event included,
\* and no request with such a header gets as far as the payment lookup.
C12_SecretBeforePayload ==
    [][\A s \in DOMAIN req :
        (req[s].pc = "idle" /\ req'[s].op \in {"webhook", "webhook_body"}
            /\ BadSecret(req'[s].arg.secret)) =>
                /\ req'[s].pc = "done"
                /\ req'[s].code = "401"
    ]_vars

\* The Payment rows that carry a provider payment id.
PaymentsWithId(table, provider_payment_id) ==
    {p \in DOMAIN table : table[p].provider_payment_id = provider_payment_id}

\* C13: a webhook call with the valid secret is answered 404 when no Payment
\* has the event's provider payment id, and 400 when the Payment that has it
\* belongs to another order than the event names; neither answer changes a
\* Payment or an Order.  No step of a webhook call changes the Payment or the
\* status of an order other than the one its event names.
C13_WebhookUnknownOrMismatched ==
    [][\A s \in DOMAIN req :
        /\ (req[s].pc = "idle" /\ req'[s].op = "webhook"
                /\ ~BadSecret(req'[s].arg.secret)) =>
            LET event == req'[s].arg.event
                with_id == PaymentsWithId(payments, event.provider_payment_id)
            IN /\ with_id = {} =>
                    /\ req'[s].pc = "done" /\ req'[s].code = "404"
                    /\ payments' = payments /\ orders' = orders
               /\ (with_id # {}
                    /\ \A p \in with_id : payments[p].order_id # event.order_id) =>
                    /\ req'[s].pc = "done" /\ req'[s].code = "400"
                    /\ payments' = payments /\ orders' = orders
        /\ (req[s].pc \in {"wh_upsert", "wh_order"}) =>
            LET o == req[s].arg.event.order_id
            IN /\ \A p \in DOMAIN payments :
                    payments[p].order_id # o =>
                        p \in DOMAIN payments' /\ payments'[p] = payments[p]
               /\ \A other \in DOMAIN orders :
                    other # o => orders'[other] = orders[other]
    ]_vars

\* A webhook with the valid secret has been answered 400: its event carries
\* the provider payment id of one order's Payment and names another existing
\* order, and would have set a status that Payment does not have.
C13_Witness ==
    \E s \in DOMAIN req :
        /\ req[s].pc = "done" /\ req[s].op = "webhook" /\ req[s].code = "400"
        /\ req[s].arg.secret = Secret
        /\ req[s].arg.event.order_id \in DOMAIN orders
        /\ \E p \in PaymentsWithId(payments, req[s].arg.event.provider_payment_id) :
                /\ payments[p].order_id # req[s].arg.event.order_id
                /\ payments[p].status # req[s].arg.event.status

\* A webhook with the valid secret has been answered 404: Payments exist, but
\* none has the provider payment id of the event.
C13_WitnessNotFound ==
    \E s \in DOMAIN req :
        /\ req[s].pc = "done" /\ req[s].op = "webhook" /\ req[s].code = "404"
        /\ req[s].arg.secret = Secret
        /\ PaymentRowsOf(payments, req[s].arg.event.order_id) # {}
        /\ PaymentsWithId(payments, req[s].arg.event.provider_payment_id) = {}

\* C14: a payment-intent call with succeed = true changes an Order only in
\* its last step and only the Order it names: that Order becomes confirmed
\* when it is created at that moment and keeps its status otherwise; either
\* way the Order's Payment has been upserted as authorized.
C14_IntentConfirmsCreatedOnly ==
    [][\A s \in DOMAIN req :
        (req'[s] # req[s] /\ req'[s].op = "intent" /\ req'[s].arg.succeed) =>
            LET o == req'[s].arg.order_id IN
            /\ req[s].pc # "pi_nudge" => orders' = orders
            /\ req'[s].pc = "pi_nudge" =>
                    /\ PaymentRowsOf(payments', o) # {}
                    /\ \A p \in PaymentRowsOf(payments', o) :
                            payments'[p].status = "authorized"
            /\ req[s].pc = "pi_nudge" =>
                    /\ req'[s].pc = "done" /\ req'[s].code = "200"
                    /\ orders'[o].status =
                            IF orders[o].status = "created" THEN "confirmed"
                            ELSE orders[o].status
                    /\ \A other \in DOMAIN orders :
                            other # o => orders'[other] = orders[other]
                    /\ DOMAIN orders' = DOMAIN orders
                    /\ \A p \in PaymentRowsOf(payments', o) :
                            payments'[p].status = "authorized"
    ]_vars

\* An intent with succeed = true has been answered 200 for an order that was
\* cancelled and still is, and the order's Payment is authorized.
C14_Witness ==
    \E s \in DOMAIN req :
        /\ req[s].pc = "done" /\ req[s].op = "intent" /\ req[s].code = "200"
        /\ req[s].arg.succeed
        /\ orders[req[s].arg.order_id].status = "cancelled"
        /\ \E p \in PaymentRowsOf(payments, req[s].arg.order_id) :
                payments[p].status = "authorized"

\* An intent with succeed = true has been answered 200 for an order that was
\* created: it is confirmed.
C14_WitnessConfirmed ==
    \E s \in DOMAIN req :
        /\ req[s].pc = "done" /\ req[s].op = "intent" /\ req[s].code = "200"
        /\ req[s].arg.succeed
        /\ orders[req[s].arg.order_id].status = "confirmed"

\* The provider payment ids that Payment rows carry.
StoredIds(table) == {table[p].provider_payment_id : p \in DOMAIN table} \ {None}

\* C19: the upsert of a payment-intent call stores a provider payment id that
\* no Payment carried before, the one drawn last, in the Payment of its
\* order, and the id that Payment carried is then carried by no Payment; no
\* other step brings an id into the table.  A webhook call with the valid
\* secret is accepted only when the Payment of the order it names carries
\* its provider payment id, and a call whose id no Payment carries (the id
\* of an earlier intent that a later one replaced) is answered 404 and
\* changes neither a Payment nor an Order.
C19_OnlyLatestIdAccepted ==
    [][/\ \A s \in DOMAIN req :
            /\ (req[s].pc = "pi_upsert" /\ req'[s].pc = "pi_nudge") =>
                LET o == req[s].arg.order_id
                    issued == req[s].v.provider_payment_id
                IN /\ issued = MockPaymentId(uuid_seq)
                   /\ issued \notin StoredIds(payments)
                   /\ \A p \in PaymentRowsOf(payments', o) :
                        payments'[p].provider_payment_id = issued
                   /\ \A p \in PaymentRowsOf(payments, o) :
                        payments[p].provider_payment_id \notin StoredIds(payments')
            /\ (req[s].pc = "idle" /\ req'[s].op = "webhook"
                    /\ ~BadSecret(req'[s].arg.secret)) =>
                LET event == req'[s].arg.event IN
                /\ req'[s].pc = "wh_upsert" =>
                        /\ PaymentRowsOf(payments, event.order_id) # {}
                        /\ \A p \in PaymentRowsOf(payments, event.order_id) :
                            payments[p].provider_payment_id = event.provider_payment_id
                /\ event.provider_payment_id \notin StoredIds(payments) =>
                        /\ req'[s].pc = "done" /\ req'[s].code = "404"
                        /\ payments' = payments /\ orders' = orders
       /\ StoredIds(payments') \subseteq StoredIds(payments) \cup {MockPaymentId(uuid_seq)}
    ]_vars

\* After two intents for the one order that has a Payment, a webhook with
\* the valid secret and the id of the first intent has been answered 404;
\* the Payment carries the id of the second intent.
C19_Witness ==
    \E s \in DOMAIN req :
        /\ req[s].pc = "done" /\ req[s].op = "webhook" /\ req[s].code = "404"
        /\ req[s].arg.secret = Secret
        /\ req[s].arg.event.provider_payment_id = MockPaymentId(1)
        /\ uuid_seq = 2
        /\ Cardinality(DOMAIN payments) = 1
        /\ \A p \in PaymentRowsOf(payments, req[s].arg.event.order_id) :
                payments[p].provider_payment_id = MockPaymentId(2)
        /\ PaymentRowsOf(payments, req[s].arg.event.order_id) # {}


-----------------------------------------------------------------------------
(* Further properties of deliveries. *)

C18_AssigneeIsDeliveryOrAdmin ==
    \A d \in DOMAIN deliveries :
        deliveries[d].delivery_person_id # NoInt =>
            /\ deliveries[d].delivery_person_id \in DOMAIN users
            /\ users[deliveries[d].delivery_person_id].role \in {"delivery", "admin"}


-----------------------------------------------------------------------------
(* Properties of the whole backend (SpecAll). *)

\* The sum of the line totals of a set of OrderItem rows.
RECURSIVE SumOfLineTotals(_, _)
SumOfLineTotals(table, rows) ==
    IF rows = {} THEN 0
    ELSE LET r == CHOOSE x \in rows : TRUE
         IN table[r].line_total + SumOfLineTotals(table, rows \ {r})

\* C16: no step of any operation changes the total_amount of an Order that
\* exists, or any field of an OrderItem that exists, and after every step the
\* total_amount of every Order is the sum of the line totals of its
\* OrderItems: totals and prices are those captured when the order was made.
C16_TotalsAreWrittenOnce ==
    [][/\ \A o \in DOMAIN orders :
            o \in DOMAIN orders' /\ orders'[o].total_amount = orders[o].total_amount
       /\ \A i \in DOMAIN order_items :
            i \in DOMAIN order_items' /\ order_items'[i] = order_items[i]
       /\ \A o \in DOMAIN orders' :
            orders'[o].total_amount
                = SumOfLineTotals(order_items', ItemRowsOf(order_items', o))
    ]_vars

\* An order made at the first prices has been paid (a captured webhook
\* confirmed it) and has a delivered Delivery; both menu prices have changed
\* since, and the order still has the total and the unit prices of the
\* example, 24.48 = 2 x 9.99 + 1 x 4.50.
C16_Witness ==
    /\ 1 \in DOMAIN orders /\ 1 \in DOMAIN deliveries
    /\ orders[1].status = "confirmed"
    /\ orders[1].total_amount = 2448
    /\ deliveries[1].status = "delivered"
    /\ \E p \in PaymentRowsOf(payments, 1) : payments[p].status = "captured"
    /\ menu[1].price = 450 /\ menu[2].price = 999
    /\ \E i \in ItemRowsOf(order_items, 1) :
            order_items[i].unit_price = 999 /\ order_items[i].line_total = 1998

-----------------------------------------------------------------------------
(* Properties of concurrent requests (SpecConcurrent). *)

\* The ids of the Delivery rows of an Order.
DeliveryRowsOf(table, order_id) == {d \in DOMAIN table : table[d].order_id = order_id}

\* At most one Payment row and at most one Delivery row per Order.
OnePaymentOneDeliveryPerOrder ==
    \A o \in OrderIds :
        /\ Cardinality(PaymentRowsOf(payments, o)) <= 1
        /\ Cardinality(DeliveryRowsOf(deliveries, o)) <= 1

\* A request that found no row for its order, and commits its insert after
\* another request has committed one, is refused: it ends with a server error
\* and the table is as it was.
LosingInsertIsRefused ==
    \A s \in DOMAIN req :
        /\ (req[s].pc = "pi_upsert" /\ req'[s].pc # "pi_upsert"
                /\ req[s].found = 0
                /\ PaymentRowsOf(payments, req[s].arg.order_id) # {}) =>
                    /\ req'[s].pc = "done" /\ req'[s].code = "500"
                    /\ payments' = payments
        /\ (req[s].pc = "cd_insert" /\ req'[s].pc # "cd_insert"
                /\ DeliveryRowsOf(deliveries, req[s].arg.order_id) # {}) =>
                    /\ req'[s].pc = "done" /\ req'[s].code = "500"
                    /\ deliveries' = deliveries /\ history' = history

\* C17: under every interleaving of two concurrent requests, every state has
\* at most one Payment row and at most one Delivery row per Order, and the
\* insert that comes second is refused by the store instead of adding a row.
C17_OneRowPerOrderUnderRaces ==
    /\ []OnePaymentOneDeliveryPerOrder
    /\ [][LosingInsertIsRefused]_vars

\* Two intents for the same order both found no Payment; one has inserted
\* its row and been answered 200, the other has been refused, and the order
\* has the one Payment of the first.
C17_Witness ==
    \E s, r \in DOMAIN req :
        /\ s # r
        /\ req[s].pc = "done" /\ req[s].op = "intent" /\ req[s].code = "500"
        /\ req[r].pc = "done" /\ req[r].op = "intent" /\ req[r].code = "200"
        /\ req[r].arg.order_id = req[s].arg.order_id
        /\ Cardinality(PaymentRowsOf(payments, req[s].arg.order_id)) = 1
        /\ \A p \in PaymentRowsOf(payments, req[s].arg.order_id) :
                payments[p].provider_payment_id = req[r].out.provider_payment_id

\* Two POST /deliveries for the same order both found no Delivery; one has
\* been answered 200, the other has been refused, and the order has the one
\* Delivery of the first.
C17_WitnessDeliveries ==
    \E s, r \in DOMAIN req :
        /\ s # r
        /\ req[s].pc = "done" /\ req[s].op = "create_delivery" /\ req[s].code = "500"
        /\ req[r].pc = "done" /\ req[r].op = "create_delivery" /\ req[r].code = "200"
        /\ req[r].arg.order_id = req[s].arg.order_id
        /\ DeliveryRowsOf(deliveries, req[s].arg.order_id) = {req[r].out}

====
